---- MODULE Spec2Model ----
(***************************************************************************)
(* Model of jenkins_top_jobs_pyjenkins.py: the per-controller scanner      *)
(* (collect_controller_jobs), the multi-controller collector               *)
(* (collect_stats) and the ranking done in main.                           *)
(*                                                                         *)
(* The Jenkins controllers are the environment.  What a controller answers *)
(* to get_whoami, get_all_jobs, get_job_info and get_build_info is a       *)
(* script: a value chosen from a bounded set when the call is made.        *)
(*                                                                         *)
(* Python values are tagged records, so that None, numbers, strings, lists *)
(* and dicts can be told apart the way the interpreter tells them apart.   *)
(* Durations are integers in milliseconds.  The float columns of a row     *)
(* (rounded to two decimals by the code) are integers in hundredths.       *)
(***************************************************************************)
EXTENDS Integers, Sequences, FiniteSets, TLC

----------------------------------------------------------------------------
(* Python values *)

Null == [null |-> TRUE]
Num(n) == [num |-> n]
Str(s) == [str |-> s]
List(xs) == [list |-> xs]
Dict(d) == [dict |-> d]

IsNull(v) == "null" \in DOMAIN v
IsNum(v) == "num" \in DOMAIN v
IsStr(v) == "str" \in DOMAIN v
IsList(v) == "list" \in DOMAIN v
IsDict(v) == "dict" \in DOMAIN v

\* bool(v)
truthy(v) ==
    IF IsNull(v) THEN FALSE
    ELSE IF IsNum(v) THEN v.num # 0
    ELSE IF IsStr(v) THEN Len(v.str) > 0
    ELSE IF IsList(v) THEN Len(v.list) > 0
    ELSE DOMAIN v.dict # {}

\* d.get(k) and d.get(k, default) on a dict d
get(d, k) == IF k \in DOMAIN d.dict THEN d.dict[k] ELSE Null
getd(d, k, default) == IF k \in DOMAIN d.dict THEN d.dict[k] ELSE default

\* a or b
or(a, b) == IF truthy(a) THEN a ELSE b

\* str(v) for the values a build result takes
str(v) == IF IsNull(v) THEN "None" ELSE v.str

\* xs[:n]
Slice(xs, n) ==
    IF n >= 0
    THEN SubSeq(xs, 1, IF n < Len(xs) THEN n ELSE Len(xs))
    ELSE SubSeq(xs, 1, Len(xs) + n)

\* the outcome of a call: an exception or a returned value
Raise(e) == [exc |-> e]
Ret(v) == [ret |-> v]
Raised(o) == "exc" \in DOMAIN o

\* s.rstrip("/")
RECURSIVE rstrip(_)
rstrip(s) ==
    IF Len(s) > 0 /\ SubSeq(s, Len(s), Len(s)) = "/"
    THEN rstrip(SubSeq(s, 1, Len(s) - 1))
    ELSE s

\* name.replace("/", "/job/")
RECURSIVE replace(_)
replace(s) ==
    IF Len(s) = 0 THEN ""
    ELSE IF SubSeq(s, 1, 1) = "/"
         THEN "/job/" \o replace(SubSeq(s, 2, Len(s)))
         ELSE SubSeq(s, 1, 1) \o replace(SubSeq(s, 2, Len(s)))

\* round(numer / denom) to the nearest integer, ties to even, as round() does
Round(numer, denom) ==
    LET q == numer \div denom
        r == numer % denom
    IN  IF 2 * r < denom THEN q
        ELSE IF 2 * r > denom THEN q + 1
        ELSE IF q % 2 = 0 THEN q ELSE q + 1

----------------------------------------------------------------------------
(* Time *)

\* Timestamps and the window start are kept in minutes since the epoch: the
\* milliseconds of a year do not fit a 32-bit integer.  Day is timedelta(days=1).
Day == 1440
Now == 20000 * Day

\* collect_stats: the window start, or None
SinceDt(days) ==
    IF truthy(days) /\ days.num > 0
    THEN Num(Now - days.num * Day)
    ELSE Null

\* within_window with ts > since_dt, which shuts out a build that started at
\* the window start
within_window_strict(ts_ms, since_dt) ==
    IF IsNull(since_dt) THEN Ret(TRUE)
    ELSE IF IsNum(ts_ms) THEN Ret(ts_ms.num > since_dt.num)
    ELSE Raise("TypeError")

\* within_window: ts_ms / 1000 is compared with since_dt, both on one scale.
\* A datetime is always true, so `not since_dt` is `since_dt is None`.
\* A timestamp that is not a number makes the division raise.
within_window(ts_ms, since_dt) ==
    IF IsNull(since_dt) THEN Ret(TRUE)
    ELSE IF IsNum(ts_ms) THEN Ret(ts_ms.num >= since_dt.num)
    ELSE Raise("TypeError")

----------------------------------------------------------------------------
(* collect_controller_jobs *)

\* (b.get("duration") or 0), in ms
Duration(b) == or(get(b, "duration"), Num(0)).num

RECURSIVE SumDurations(_)
SumDurations(builds) ==
    IF Len(builds) = 0 THEN 0
    ELSE Duration(Head(builds)) + SumDurations(Tail(builds))

RECURSIVE MaxDuration(_)
MaxDuration(builds) ==
    IF Len(builds) = 0 THEN 0
    ELSE LET d == Duration(Head(builds))
             m == MaxDuration(Tail(builds))
         IN  IF d >= m THEN d ELSE m

\* the test with ABORTED left out of the tuple: an aborted build is a failure
IsFailureWithAborted(b) == str(get(b, "result")) \notin {"SUCCESS", "None"}

\* the test of the generator that counts failures
IsFailure(b) == str(get(b, "result")) \notin {"SUCCESS", "ABORTED", "None"}

RECURSIVE Failures(_)
Failures(builds) ==
    IF Len(builds) = 0 THEN 0
    ELSE (IF IsFailure(Head(builds)) THEN 1 ELSE 0) + Failures(Tail(builds))

\* info.get("url") or f"{controller_url.rstrip('/')}/job/{name.replace('/', '/job/')}"
JobUrl(info, controller_url, name) ==
    or(get(info, "url"), Str(rstrip(controller_url) \o "/job/" \o replace(name))).str

\* the dict appended to rows; the float columns are in hundredths
JobRow(info, controller_url, name, builds) ==
    LET count == Len(builds)
        total_runtime == SumDurations(builds)
        longest == MaxDuration(builds)
        failures == Failures(builds)
    IN  [controller |-> controller_url,
         job_name |-> name,
         job_url |-> JobUrl(info, controller_url, name),
         builds |-> count,
         failures |-> failures,
         failure_rate |-> Round(failures * 10000, count),
         total_runtime_seconds |-> Round(total_runtime, 10),
         avg_runtime_seconds |->
             IF count # 0 THEN Round(total_runtime, 10 * count) ELSE 0,
         longest_runtime_seconds |-> Round(longest, 10)]

\* the slice taken one too far: [:max_builds + 1]
BuildsMetaOneMore(build_list, max_builds) == Slice(build_list, max_builds + 1)

\* builds_meta = info.get("builds", [])[:max_builds]
BuildsMeta(build_list, max_builds) == Slice(build_list, max_builds)

\* One turn of the loop with the window test dropped: every build whose fetch
\* returned is appended.
FetchOneUnfiltered(b, get_build_info, since_dt) ==
    LET number == b.dict["number"].num
        o == get_build_info[number]
    IN  [fetched |-> <<number>>,
         builds |-> IF Raised(o) THEN <<>> ELSE <<o.ret>>]

\* One turn of the loop over builds_meta: the call of get_build_info is
\* recorded in fetched, and the build is appended when the call returned and
\* within_window is true; any exception in the try block drops the build.
FetchOne(b, get_build_info, since_dt) ==
    LET number == b.dict["number"].num
        o == get_build_info[number]
        w == within_window(getd(o.ret, "timestamp", Num(0)), since_dt)
    IN  [fetched |-> <<number>>,
         builds |-> IF Raised(o) THEN <<>>
                    ELSE IF Raised(w) THEN <<>>
                    ELSE IF w.ret THEN <<o.ret>> ELSE <<>>]

\* The loop over builds_meta, stopped at the first failed fetch instead of
\* going on to the next build.
RECURSIVE FetchBuildsBreak(_, _, _)
FetchBuildsBreak(builds_meta, get_build_info, since_dt) ==
    IF Len(builds_meta) = 0 THEN [fetched |-> <<>>, builds |-> <<>>]
    ELSE LET one == FetchOne(Head(builds_meta), get_build_info, since_dt)
             failed == Raised(get_build_info[Head(builds_meta).dict["number"].num])
             rest == FetchBuildsBreak(Tail(builds_meta), get_build_info, since_dt)
         IN  IF failed THEN one
             ELSE [fetched |-> one.fetched \o rest.fetched,
                   builds |-> one.builds \o rest.builds]

\* The loop over builds_meta
RECURSIVE FetchBuilds(_, _, _)
FetchBuilds(builds_meta, get_build_info, since_dt) ==
    IF Len(builds_meta) = 0 THEN [fetched |-> <<>>, builds |-> <<>>]
    ELSE LET one == FetchOne(Head(builds_meta), get_build_info, since_dt)
             rest == FetchBuilds(Tail(builds_meta), get_build_info, since_dt)
         IN  [fetched |-> one.fetched \o rest.fetched,
              builds |-> one.builds \o rest.builds]

\* What one turn of the loop over jobs does: kind is "raise" (an exception
\* leaves the function), "skip" (continue) or "row" (a row is appended).
\* fetched and builds are kept for the properties.
JobResult(kind, rows, fetched, builds) ==
    [kind |-> kind, rows |-> rows, fetched |-> fetched, builds |-> builds]

\* A job script js is what the controller answers for one entry of the job
\* list: js.entry is the entry, js.info the outcome of get_job_info, and
\* js.get_build_info maps a build number to the outcome of get_build_info.
ScanJob(js, controller_url, max_builds, since_dt) ==
    IF ~IsDict(js.entry) THEN JobResult("raise", <<>>, <<>>, <<>>)
    ELSE
    LET name == or(get(js.entry, "fullname"), get(js.entry, "name")) IN
    IF ~truthy(name) THEN JobResult("skip", <<>>, <<>>, <<>>)
    ELSE IF Raised(js.info) THEN JobResult("skip", <<>>, <<>>, <<>>)
    ELSE
    LET info == js.info.ret IN
    IF ~IsDict(info) THEN JobResult("raise", <<>>, <<>>, <<>>)
    ELSE
    LET build_list == getd(info, "builds", List(<<>>)) IN
    IF ~IsList(build_list) THEN JobResult("raise", <<>>, <<>>, <<>>)
    ELSE
    LET builds_meta == BuildsMeta(build_list.list, max_builds)
        f == FetchBuilds(builds_meta, js.get_build_info, since_dt)
    IN  IF Len(f.builds) = 0 THEN JobResult("skip", <<>>, f.fetched, <<>>)
        ELSE JobResult("row",
                       <<JobRow(info, controller_url, name.str, f.builds)>>,
                       f.fetched, f.builds)

\* The loop over jobs.  An exception ends it and the rows gathered so far are
\* lost with the frame; trace keeps the turns taken.
RECURSIVE ScanJobs(_, _, _, _)
ScanJobs(jobs, controller_url, max_builds, since_dt) ==
    IF Len(jobs) = 0 THEN [raised |-> FALSE, rows |-> <<>>, trace |-> <<>>]
    ELSE LET r == ScanJob(Head(jobs), controller_url, max_builds, since_dt)
             rest == ScanJobs(Tail(jobs), controller_url, max_builds, since_dt)
         IN  IF r.kind = "raise"
             THEN [raised |-> TRUE, rows |-> <<>>, trace |-> <<r>>]
             ELSE [raised |-> rest.raised,
                   rows |-> IF rest.raised THEN <<>> ELSE r.rows \o rest.rows,
                   trace |-> <<r>> \o rest.trace]

\* A controller script cs: cs.get_all_jobs is the outcome of get_all_jobs
\* (an exception, or the list of job scripts in enumeration order).
\* The pause of 0.3 s every 50 jobs changes no state and is left out.
collect_controller_jobs(cs, controller_url, max_builds, since_dt) ==
    IF Raised(cs.get_all_jobs)
    THEN [raised |-> TRUE, rows |-> <<>>, trace |-> <<>>]
    ELSE ScanJobs(cs.get_all_jobs.ret, controller_url, max_builds, since_dt)

----------------------------------------------------------------------------
(* What the controllers answer: the bounded sets the scripts are drawn from *)

MaxRefs == 2
MaxJobs == 2
MaxControllers == 2

\* a key left out of a dict
Absent == [absent |-> TRUE]
MkDict(fields) ==
    Dict([k \in {x \in DOMAIN fields : "absent" \notin DOMAIN fields[x]} |-> fields[k]])

BuildInfo(ts, dur, res) ==
    MkDict([timestamp |-> ts, duration |-> dur, result |-> res])

YearAgo == Now - 365 * Day
Edge == Now - Day

Timestamps ==
    {Num(Now), Num(Edge), Num(Edge - 1), Num(YearAgo), Absent, Null}
Durations == {Num(60000), Num(120000), Num(180000), Absent}
Results ==
    {Str("SUCCESS"), Str("FAILURE"), Str("ABORTED"), Str("UNSTABLE"), Null, Absent}

\* build records that differ from a recent successful one-minute build in at
\* most one field
BuildInfos ==
    {BuildInfo(t, Num(60000), Str("SUCCESS")) : t \in Timestamps}
    \cup {BuildInfo(Num(Now), d, Str("SUCCESS")) : d \in Durations}
    \cup {BuildInfo(Num(Now), Num(60000), r) : r \in Results}

BuildOutcomes == {Raise("JenkinsException")} \cup {Ret(b) : b \in BuildInfos}

\* the build references of a job with n builds, newest first
Refs(n) == [k \in 1..n |-> Dict("number" :> Num(n + 1 - k))]

FolderJob == Dict(("fullname" :> Str("f/y")) @@ ("name" :> Str("y")))
PlainJob == Dict("name" :> Str("x"))
NamelessJob == Dict(<<>>)

JobScript(entry, info, get_build_info) ==
    [entry |-> entry, info |-> info, get_build_info |-> get_build_info]

\* one job looked at closely: up to MaxRefs builds, each with any outcome
DetailedJobs ==
    UNION {{JobScript(FolderJob, Ret(Dict("builds" :> List(Refs(n)))), f) :
                f \in [1..n -> BuildOutcomes]} : n \in 0..MaxRefs}

\* jobs looked at from afar: every kind of entry and of job metadata, and at
\* most one build
CoarseBuildOutcomes ==
    {Raise("JenkinsException"),
     Ret(BuildInfo(Num(Now), Num(60000), Str("SUCCESS"))),
     Ret(BuildInfo(Num(YearAgo), Num(120000), Str("FAILURE")))}

CoarseInfos ==
    {Raise("NotFoundException"), Raise("JenkinsException"),
     Ret(Null), Ret(Dict(<<>>)), Ret(Dict("builds" :> Null)),
     Ret(Dict("builds" :> List(<<>>)))}

CoarseJobs ==
    {JobScript(e, Raise("unused"), <<>>) : e \in {NamelessJob, Null}}
    \cup {JobScript(e, o, <<>>) : e \in {FolderJob, PlainJob}, o \in CoarseInfos}
    \cup {JobScript(e, Ret(Dict(("builds" :> List(Refs(1))) @@ ("url" :> Str("u")))), <<o>>) :
              e \in {FolderJob, PlainJob}, o \in CoarseBuildOutcomes}

SeqsUpTo(S, n) == UNION {[1..m -> S] : m \in 0..n}

ControllerScript(get_all_jobs) == [get_all_jobs |-> get_all_jobs]

ScanScripts ==
    {ControllerScript(Raise("JenkinsException"))}
    \cup {ControllerScript(Ret(<<js>>)) : js \in DetailedJobs}
    \cup {ControllerScript(Ret(jobs)) : jobs \in SeqsUpTo(CoarseJobs, MaxJobs)}

\* a job with the given builds, oldest first (build k of the job is outcomes[k])
JobWith(entry, outcomes) ==
    JobScript(entry, Ret(Dict("builds" :> List(Refs(Len(outcomes))))), outcomes)

RecentBuild == Ret(BuildInfo(Num(Now), Num(60000), Str("SUCCESS")))
LongFailedBuild == Ret(BuildInfo(Num(Now), Num(120000), Str("FAILURE")))
OldBuild == Ret(BuildInfo(Num(YearAgo), Num(60000), Str("SUCCESS")))

\* whole controllers, for the runs over several of them: one that cannot
\* list its jobs, one without jobs, two with one job, one with two jobs, one
\* whose job list has an entry that is not a dict, one with an old build only
CollectScripts ==
    {ControllerScript(Raise("JenkinsException")),
     ControllerScript(Ret(<<>>)),
     ControllerScript(Ret(<<JobWith(PlainJob, <<RecentBuild>>)>>)),
     ControllerScript(Ret(<<JobWith(PlainJob, <<RecentBuild, RecentBuild>>)>>)),
     ControllerScript(Ret(<<JobWith(PlainJob, <<RecentBuild>>),
                            JobWith(FolderJob, <<RecentBuild, LongFailedBuild>>)>>)),
     ControllerScript(Ret(<<JobWith(PlainJob, <<RecentBuild>>),
                            JobScript(Null, Raise("unused"), <<>>)>>)),
     ControllerScript(Ret(<<JobWith(PlainJob, <<OldBuild>>)>>))}

\* the controller arguments after main has split and stripped --controllers
ControllerArgs == {"a", "a/", "b"}
ControllerLists == UNION {[1..n -> ControllerArgs] : n \in 1..MaxControllers}

DaysChoices == {Null, Num(-1), Num(0), Num(1), Num(30)}
MaxBuildsChoices == (-1)..MaxRefs

----------------------------------------------------------------------------
(* collect_stats and main *)

VARIABLES
    pc,           \* where the run stands
    controllers,  \* arguments of collect_stats
    verify_tls,
    max_builds,
    days,
    since_dt,
    i,            \* position of the loop over controllers
    jc,           \* the client of the controller being scanned
    all_rows,
    log,          \* what happened at each controller so far
    script,       \* the script of the last scan
    scan,         \* what the last call of collect_controller_jobs did
    sort,         \* args.sort and args.top
    top,
    df_sorted,
    top_df

vars == <<pc, controllers, verify_tls, max_builds, days, since_dt, i, jc,
          all_rows, log, script, scan, sort, top, df_sorted, top_df>>

NoClient == [server |-> ""]
NoScript == ControllerScript(Raise("none"))
NoScan == [raised |-> FALSE, rows |-> <<>>, trace |-> <<>>]

\* requests validates certificates unless told otherwise
RequestsVerify == TRUE

\* jenkins.Jenkins(base, username=user, password=token): nothing about TLS
\* is passed, so the session keeps the default of requests
Jenkins(server, username, password) ==
    [server |-> server, username |-> username, password |-> password,
     verify |-> RequestsVerify]

base == rstrip(controllers[i])

\* the state when collect_stats enters the loop over controllers, called by
\* main with the parsed arguments
Start(cs, v, m, d, s, t) ==
    /\ pc = "loop"
    /\ controllers = cs
    /\ verify_tls = v
    /\ max_builds = m
    /\ days = d
    /\ since_dt = SinceDt(d)
    /\ i = 1
    /\ jc = NoClient
    /\ all_rows = <<>>
    /\ log = <<>>
    /\ script = NoScript
    /\ scan = NoScan
    /\ sort = s
    /\ top = t
    /\ df_sorted = <<>>
    /\ top_df = <<>>

\* base = base.rstrip("/"); jc = jenkins.Jenkins(...)
Connect ==
    /\ pc = "loop"
    /\ i <= Len(controllers)
    /\ jc' = Jenkins(base, "user", "token")
    /\ pc' = "whoami"
    /\ UNCHANGED <<controllers, verify_tls, max_builds, days, since_dt, i,
                   all_rows, log, script, scan, sort, top, df_sorted, top_df>>

\* jc.get_whoami() raises and the loop is left instead of continued
WhoAmIRaisesAndStops ==
    /\ pc = "whoami"
    /\ log' = Append(log, [base |-> base, outcome |-> "auth_failed", rows |-> <<>>])
    /\ i' = i + 1
    /\ pc' = "returned"
    /\ UNCHANGED <<controllers, verify_tls, max_builds, days, since_dt, jc,
                   all_rows, script, scan, sort, top, df_sorted, top_df>>

\* jc.get_whoami() raises: the controller is reported and skipped
WhoAmIRaises ==
    /\ pc = "whoami"
    /\ log' = Append(log, [base |-> base, outcome |-> "auth_failed", rows |-> <<>>])
    /\ i' = i + 1
    /\ pc' = "loop"
    /\ UNCHANGED <<controllers, verify_tls, max_builds, days, since_dt, jc,
                   all_rows, script, scan, sort, top, df_sorted, top_df>>

\* jc.get_whoami() returns
WhoAmIReturns ==
    /\ pc = "whoami"
    /\ pc' = "scan"
    /\ UNCHANGED <<controllers, verify_tls, max_builds, days, since_dt, i, jc,
                   all_rows, log, script, scan, sort, top, df_sorted, top_df>>

\* the second try block: collect_controller_jobs returns rows, which extend
\* all_rows, or raises, and the controller is reported and skipped
Scan(scripts) ==
    /\ pc = "scan"
    /\ \E cs \in scripts :
        LET r == collect_controller_jobs(cs, base, max_builds, since_dt) IN
        /\ script' = cs
        /\ scan' = r
        /\ all_rows' = IF r.raised THEN all_rows ELSE all_rows \o r.rows
        /\ log' = Append(log,
                [base |-> base,
                 outcome |-> IF r.raised THEN "scan_failed" ELSE "scanned",
                 rows |-> r.rows])
    /\ i' = i + 1
    /\ pc' = "loop"
    /\ UNCHANGED <<controllers, verify_tls, max_builds, days, since_dt, jc,
                   sort, top, df_sorted, top_df>>

\* return all_rows
Return ==
    /\ pc = "loop"
    /\ i > Len(controllers)
    /\ pc' = "returned"
    /\ UNCHANGED <<controllers, verify_tls, max_builds, days, since_dt, i, jc,
                   all_rows, log, script, scan, sort, top, df_sorted, top_df>>

\* One controller, every window and every cap, scripts that look closely at
\* the scanner
InitScan ==
    \E d \in DaysChoices, m \in MaxBuildsChoices :
        Start(<<"a/">>, FALSE, m, d, "builds", 25)

NextScan ==
    \/ Connect
    \/ WhoAmIRaises
    \/ WhoAmIReturns
    \/ Scan(ScanScripts)
    \/ Return

SpecScan == InitScan /\ [][NextScan]_vars

----------------------------------------------------------------------------
(* Properties of the scanner, read off the last scan *)

\* a scan was made and the job list was obtained
Enumerated == script # NoScript /\ ~Raised(script.get_all_jobs)
Jobs == script.get_all_jobs.ret
Visited == 1..Len(scan.trace)

\* the job's name and metadata were obtained and the metadata lists builds
HasBuildList(js) ==
    /\ IsDict(js.entry)
    /\ truthy(or(get(js.entry, "fullname"), get(js.entry, "name")))
    /\ ~Raised(js.info)
    /\ IsDict(js.info.ret)
    /\ "builds" \in DOMAIN js.info.ret.dict
    /\ IsList(js.info.ret.dict["builds"])

\* the build numbers of the job's build list, in the order of the API
RefNumbers(js) ==
    IF HasBuildList(js)
    THEN [k \in 1..Len(js.info.ret.dict["builds"].list) |->
              js.info.ret.dict["builds"].list[k].dict["number"].num]
    ELSE <<>>

Min(a, b) == IF a <= b THEN a ELSE b

\* how many references of the build list are selected: the first max_builds
\* (a negative max_builds leaves out that many from the end)
SelectedCount(js) ==
    LET n == Len(RefNumbers(js)) IN
    IF max_builds >= 0 THEN Min(max_builds, n)
    ELSE IF n + max_builds > 0 THEN n + max_builds ELSE 0

\* the timestamp of a fetched build is inside the window
InWindow(b) ==
    \/ IsNull(since_dt)
    \/ LET ts == IF "timestamp" \in DOMAIN b.dict THEN b.dict["timestamp"] ELSE Num(0)
       IN  IsNum(ts) /\ ts.num >= since_dt.num

\* the positions in fetched of the builds whose fetch returned a build in the window
Good(js, r) ==
    {k \in 1..Len(r.fetched) :
        /\ ~Raised(js.get_build_info[r.fetched[k]])
        /\ InWindow(js.get_build_info[r.fetched[k]].ret)}

\* the positions in fetched whose fetch failed
Failed(js, r) ==
    {k \in 1..Len(r.fetched) : Raised(js.get_build_info[r.fetched[k]])}

GoodBuilds(js, r) ==
    LET keep(k) == k \in Good(js, r)
        pos == SelectSeq([k \in 1..Len(r.fetched) |-> k], keep)
    IN  [k \in 1..Len(pos) |-> js.get_build_info[r.fetched[pos[k]]].ret]

\* C2: once get_all_jobs has returned, the scanner does not fail, whatever
\* single jobs and builds do: every job of the list is visited and the scan
\* returns.
C2_OnlyEnumerationFails ==
    Enumerated => ~scan.raised /\ Len(scan.trace) = Len(Jobs)

\* C3: whichever fetches fail, exactly the failing builds are left out: every
\* selected reference is fetched, the builds counted are the fetched builds
\* that returned and are in the window, in order, and the row's builds column
\* is their number.
C3_FailedFetchesAreLeftOut ==
    Enumerated =>
        \A k \in Visited :
            LET js == Jobs[k]
                r == scan.trace[k]
            IN  HasBuildList(js) =>
                /\ Len(r.fetched) = SelectedCount(js)
                /\ r.builds = GoodBuilds(js, r)
                /\ Good(js, r) # {} =>
                       /\ r.kind = "row"
                       /\ r.rows[1].builds = Cardinality(Good(js, r))

C3_Witness ==
    /\ Enumerated
    /\ \E k \in Visited :
        /\ Len(scan.trace[k].fetched) = 2
        /\ Failed(Jobs[k], scan.trace[k]) = {1}
        /\ Good(Jobs[k], scan.trace[k]) = {2}
        /\ scan.trace[k].kind = "row"
        /\ scan.rows[1].builds = 1
        /\ all_rows = scan.rows

\* C4: a job yields a row exactly when one of its fetched builds is in the
\* window, and every row returned by the scanner and every row of the
\* aggregate has builds >= 1.
C4_RowIffBuildInWindow ==
    /\ Enumerated =>
        \A k \in Visited :
            scan.trace[k].kind = "row" <=> Good(Jobs[k], scan.trace[k]) # {}
    /\ \A k \in 1..Len(scan.rows) : scan.rows[k].builds >= 1
    /\ \A k \in 1..Len(all_rows) : all_rows[k].builds >= 1

C4_Witness ==
    /\ Enumerated
    /\ ~scan.raised
    /\ \E k \in Visited :
        /\ Len(scan.trace[k].fetched) = 2
        /\ Failed(Jobs[k], scan.trace[k]) = {1}
        /\ Good(Jobs[k], scan.trace[k]) = {}
        /\ scan.trace[k].kind = "skip"
    /\ all_rows = <<>>

Result(b) == IF "result" \in DOMAIN b.dict THEN b.dict["result"] ELSE Null

\* C5: in every row, failures is the number of counted builds whose result is
\* known and is neither SUCCESS nor ABORTED; these are the UNSTABLE and the
\* FAILURE builds.
C5_FailureCount ==
    Enumerated =>
        \A k \in Visited :
            LET r == scan.trace[k]
                bad == {n \in 1..Len(r.builds) :
                           /\ ~IsNull(Result(r.builds[n]))
                           /\ Result(r.builds[n]).str \notin {"SUCCESS", "ABORTED"}}
                failed == {n \in 1..Len(r.builds) :
                           /\ ~IsNull(Result(r.builds[n]))
                           /\ Result(r.builds[n]).str \in {"FAILURE", "UNSTABLE"}}
            IN  r.kind = "row" =>
                /\ r.rows[1].failures = Cardinality(bad)
                /\ r.rows[1].failures = Cardinality(failed)
                /\ r.rows[1].builds = Len(r.builds)

C5_Witness ==
    /\ Enumerated
    /\ \E k \in Visited :
        LET r == scan.trace[k] IN
        /\ r.kind = "row"
        /\ Len(r.builds) = 2
        /\ {Result(r.builds[1]), Result(r.builds[2])} = {Str("ABORTED"), Str("FAILURE")}
        /\ r.rows[1].builds = 2
        /\ r.rows[1].failures = 1

C7_FetchCap ==
    (Enumerated /\ max_builds > 0) =>
        \A k \in Visited :
            LET js == Jobs[k]
                r == scan.trace[k]
                n == Min(max_builds, Len(RefNumbers(js)))
            IN  /\ Len(r.fetched) <= max_builds
                /\ r.fetched = SubSeq(RefNumbers(js), 1, n)
                /\ \A a, b \in 1..Len(r.fetched) : a # b => r.fetched[a] # r.fetched[b]
                /\ \A m \in 1..Len(r.builds) :
                    \E a \in 1..n : js.get_build_info[RefNumbers(js)[a]] = Ret(r.builds[m])

C7_Witness ==
    /\ Enumerated
    /\ max_builds = 1
    /\ \E k \in Visited :
        /\ Len(RefNumbers(Jobs[k])) = 2
        /\ scan.trace[k].fetched = <<2>>
        /\ ~Raised(Jobs[k].get_build_info[1])
        /\ scan.trace[k].kind = "row"

----------------------------------------------------------------------------
(* collect_stats over several controllers *)

\* the flag absent (days 30, max_builds 200 being the defaults of main)
Init ==
    \E cs \in ControllerLists, v \in BOOLEAN, m \in {1, 200}, d \in {Num(0), Num(30)} :
        Start(cs, v, m, d, "builds", 25)

Next ==
    \/ Connect
    \/ WhoAmIRaises
    \/ WhoAmIReturns
    \/ Scan(CollectScripts)
    \/ Return

Spec == Init /\ [][Next]_vars

RECURSIVE RowsOfScanned(_)
RowsOfScanned(l) ==
    IF Len(l) = 0 THEN <<>>
    ELSE (IF Head(l).outcome = "scanned" THEN Head(l).rows ELSE <<>>)
         \o RowsOfScanned(Tail(l))

\* C1: a controller whose get_whoami fails or whose scan raises adds no row
\* and does not stop the run: the loop reaches every controller of the list,
\* and the aggregate is made of the rows returned by the scans that
\* succeeded, those before a failing controller and those after it.
C1_FailuresAreIsolated ==
    /\ all_rows = RowsOfScanned(log)
    /\ \A k \in 1..Len(log) :
        /\ log[k].base = rstrip(controllers[k])
        /\ log[k].outcome # "scanned" => log[k].rows = <<>>
    /\ pc = "returned" => Len(log) = Len(controllers)

C1_Witness ==
    /\ pc = "returned"
    /\ Len(controllers) = 2
    /\ log[1].outcome = "auth_failed"
    /\ log[2].outcome = "scanned"
    /\ Len(log[2].rows) = 2
    /\ all_rows = log[2].rows

\* C9: no two rows of the aggregate have the same controller and job_name.
C9_OneRowPerControllerJob ==
    \A a, b \in 1..Len(all_rows) :
        a # b =>
            ~(/\ all_rows[a].controller = all_rows[b].controller
              /\ all_rows[a].job_name = all_rows[b].job_name)

\* C10: the client used for get_whoami and for the scan validates TLS
\* certificates exactly when verify_tls is set.
C10_VerifyTlsReachesClient ==
    pc \in {"whoami", "scan"} => jc.verify = verify_tls

----------------------------------------------------------------------------
(* main: ranking *)

MaxTop == 3

SortKeys ==
    {"builds", "total_runtime_seconds", "avg_runtime_seconds",
     "longest_runtime_seconds"}

\* pd.DataFrame(rows): the rows under a RangeIndex
DataFrame(rows) == [k \in 1..Len(rows) |-> [index |-> k - 1, row |-> rows[k]]]

\* the order sort_values puts two rows in: ascending instead of descending
InOrderAscending(a, b, by) == a.row[by] <= b.row[by]

\* the order sort_values(ascending=False) puts two rows in
InOrder(a, b, by) == a.row[by] >= b.row[by]

Orders(n) ==
    {f \in [1..n -> 1..n] : \A a, b \in 1..n : a # b => f[a] # f[b]}

\* df.sort_values(by=by, ascending=False): no kind is passed, so the sort is
\* pandas' default quicksort, which is not stable: rows with equal keys may
\* come out in any order.  The set of the frames the call can return.
sort_values(df, by) ==
    {[k \in 1..Len(df) |-> df[f[k]]] :
        f \in {g \in Orders(Len(df)) :
                  \A k \in 1..(Len(df) - 1) : InOrder(df[g[k]], df[g[k + 1]], by)}}

\* df.head(n): the first n rows, or all but the last -n rows when n < 0
head(df, n) == Slice(df, n)

\* if not rows: print("No job data found in the selected window."); return
NoData ==
    /\ pc = "returned"
    /\ Len(all_rows) = 0
    /\ pc' = "done"
    /\ UNCHANGED <<controllers, verify_tls, max_builds, days, since_dt, i, jc,
                   all_rows, log, script, scan, sort, top, df_sorted, top_df>>

\* df_sorted = df.sort_values(by=args.sort, ascending=False)
\* top_df = df_sorted.head(args.top)
Rank ==
    /\ pc = "returned"
    /\ Len(all_rows) > 0
    /\ \E d \in sort_values(DataFrame(all_rows), sort) :
        /\ df_sorted' = d
        /\ top_df' = head(d, top)
    /\ pc' = "done"
    /\ UNCHANGED <<controllers, verify_tls, max_builds, days, since_dt, i, jc,
                   all_rows, log, script, scan, sort, top>>

\* one or two controllers, every sort key and every preview size
InitRank ==
    \E cs \in {<<"a">>, <<"a", "b">>}, s \in SortKeys, t \in (-1)..MaxTop :
        Start(cs, FALSE, 200, Num(30), s, t)

NextRank ==
    \/ Connect
    \/ WhoAmIRaises
    \/ WhoAmIReturns
    \/ Scan(CollectScripts)
    \/ Return
    \/ NoData
    \/ Rank

SpecRank == InitRank /\ [][NextRank]_vars

Ranked == pc = "done" /\ Len(all_rows) > 0

IsPermutationOfRows ==
    /\ Len(df_sorted) = Len(all_rows)
    /\ \A k \in 1..Len(all_rows) :
        \E n \in 1..Len(df_sorted) : df_sorted[n].index = k - 1
    /\ \A n \in 1..Len(df_sorted) :
        df_sorted[n].row = all_rows[df_sorted[n].index + 1]

IsDescending ==
    \A n \in 1..(Len(df_sorted) - 1) :
        df_sorted[n].row[sort] >= df_sorted[n + 1].row[sort]

IsStable ==
    \A a, b \in 1..Len(df_sorted) :
        (a < b /\ df_sorted[a].row[sort] = df_sorted[b].row[sort]) =>
            df_sorted[a].index < df_sorted[b].index

PreviewIsFirstTop ==
    top >= 0 => top_df = SubSeq(df_sorted, 1, Min(top, Len(df_sorted)))

\* C8 as stated: the ranked output is a permutation of the rows, descending
\* by the sort key, rows with equal keys in their original order, and the
\* preview is its first top rows (top not negative).
C8_StableDescendingRanking ==
    Ranked => IsPermutationOfRows /\ IsDescending /\ IsStable /\ PreviewIsFirstTop

\* C8 amended: the ranked output is a permutation of the rows, descending by
\* the sort key, and the preview is its first top rows (top not negative);
\* the order of rows with equal keys is not fixed.
C8_DescendingRanking ==
    Ranked => IsPermutationOfRows /\ IsDescending /\ PreviewIsFirstTop

C8_Witness ==
    /\ Ranked
    /\ Len(df_sorted) = 4
    /\ top = 2
    /\ Len(top_df) = 2
    /\ df_sorted[1].row[sort] > df_sorted[4].row[sort]
    /\ df_sorted[1].row[sort] = df_sorted[2].row[sort]
    /\ IsStable

====
